---- MODULE Spec2Model ----
(***************************************************************************)
(* Ride lifecycle of the itprologistics backend: the Ride, User and        *)
(* DriverDetail collections and the request handlers of routes/rides.js,   *)
(* routes/admin/rides.js, routes/admin/driver.js and the admin user        *)
(* routes, each handler translated from its code.                          *)
(***************************************************************************)
EXTENDS Integers, Sequences, FiniteSets, TLC

\* ------------------------------------------------------------------------
\* Identifiers.  User ids and DriverDetail ids are ObjectIds of two
\* different collections: values of one kind, never equal to each other.
\* ------------------------------------------------------------------------
U(n) == <<"user", n>>
P(n) == <<"driver", n>>
Null == <<"null", 0>>

Rider == U(1)
DriverA == U(2)
DriverB == U(3)
Admin == U(4)
UserIds == {Rider, DriverA, DriverB, Admin}

\* Bounds of the exploration.
MaxProfiles == 2
MaxTime == 2

ProfileIds == {P(n) : n \in 1..MaxProfiles}
RideIds == {1}

\* An id that names no document of any collection.
UnknownId == <<"unknown", 0>>
\* Driver references an assign request may carry.
DriverRefs == ProfileIds \cup {DriverA, DriverB, UnknownId, Null}

Statuses == {"pending", "searching", "awaiting_driver_confirmation", "accepted",
             "picked_up", "in_progress", "completed", "cancelled"}
Terminal == {"completed", "cancelled"}
\* Status strings a request body may carry: the valid ones and one that is not.
RequestStatuses == Statuses \cup {"arrived"}

VARIABLES users, drivers, nextDriver, rides, now, last, reqs, vehicles

vars == <<users, drivers, nextDriver, rides, now, last, reqs, vehicles>>

\* ------------------------------------------------------------------------
\* Collections
\*   users   : user id -> role, "none" once the document is deleted
\*   drivers : DriverDetail documents, keyed by their own id
\*   rides   : Ride documents, keyed by ride id
\*   now     : the clock read by new Date()
\*   last    : the operation and HTTP status of the latest response
\*   reqs    : requests in flight (used by the interleaved specifications)
\*   vehicles: Vehicle documents, keyed by their own id
\* ------------------------------------------------------------------------
\* A Ride document with the defaults of RideSchema.  0 stands for null: an
\* unset timestamp, an absent rating.  pickedUpAt is not a path of the
\* schema: the field is carried here to show that it is never stored.
NewRide(u) ==
  [userId |-> u, driverId |-> Null, status |-> "pending",
   rideType |-> "car", totalFare |-> 0, riderRating |-> 0,
   acceptedAt |-> 0, pickedUpAt |-> 0, startedAt |-> 0, completedAt |-> 0,
   cancelledAt |-> 0]

\* The value of a path that a document does not store.
Absent == <<"absent", 0>>

\* A DriverDetail document; driverRating in tenths, 0 by default; vehicleId
\* has no default, so a new document does not store the path.
NewDriver(u) == [userId |-> u, driverRating |-> 0, vehicleId |-> Absent]

\* Vehicle ids and a Vehicle document as POST /admin/vehicles creates it.
V(n) == <<"vehicle", n>>

NewVehicle(vehicleType) == [vehicleType |-> vehicleType, status |-> "available"]

\* No vehicle is registered.
NoVehicles == [v \in {} |-> NewVehicle("sedan")]

User_findById(id) == IF id \in DOMAIN users /\ users[id] # "none" THEN id ELSE Null

DriverDetail_findById(id) == IF id \in DOMAIN drivers THEN id ELSE Null

DriverDetail_findByUser(u) ==
  IF \E p \in DOMAIN drivers : drivers[p].userId = u
  THEN CHOOSE p \in DOMAIN drivers : drivers[p].userId = u
  ELSE Null

isAdmin(a) == User_findById(a) # Null /\ users[a] = "admin"

Respond(op, c) == last' = [op |-> op, code |-> c]

Idle == [i \in {} |-> 0]

\* The accounts are registered, the second driver has its driver detail, the
\* first driver's is still to be created, and no ride has been ordered.
Init ==
  /\ users = (Rider :> "user" @@ DriverA :> "driver" @@ DriverB :> "driver" @@ Admin :> "admin")
  /\ drivers = (P(1) :> NewDriver(DriverB))
  /\ nextDriver = 2
  /\ rides = [r \in {} |-> NewRide(Null)]
  /\ now = 1
  /\ last = [op |-> "none", code |-> 0]
  /\ reqs = Idle
  /\ vehicles = NoVehicles

\* The clock after a handler has read it with new Date(): later reads see a
\* later instant, up to the resolution MaxTime of the exploration.
Later(t) == IF t < MaxTime THEN t + 1 ELSE t

\* Pricing configuration in Naira, by ride type.
PRICING_CONFIG ==
  [bicycle |-> [baseFare |-> 200, perKm |-> 50, perMinute |-> 10, serviceFeePercent |-> 5],
   motorcycle |-> [baseFare |-> 300, perKm |-> 100, perMinute |-> 15, serviceFeePercent |-> 8],
   car |-> [baseFare |-> 500, perKm |-> 150, perMinute |-> 20, serviceFeePercent |-> 10]]

\* Names every JavaScript object answers to through Object.prototype.
ObjectPrototypeKeys == {"constructor", "toString"}

\* PRICING_CONFIG[rideType] is truthy: for a key of the object literal, and
\* for a name that the lookup finds on the prototype.
ConfigFound(rideType) == rideType \in DOMAIN PRICING_CONFIG \cup ObjectPrototypeKeys

\* RideSchema.rideType: enum ['bicycle', 'motorcycle', 'car']
RideTypeEnum == {"bicycle", "motorcycle", "car"}

\* Request bodies of an order: the ride type, the fare (0 when the field is
\* missing), and a status and a timestamp the client adds of its own.
OrderBodies ==
  [rideType : {"car", "truck"}, totalFare : {0, 500},
   status : {"pending", "completed"}, completedAt : {1}]

\* An order as the client application sends it.
PlainOrder == [rideType |-> "car", totalFare |-> 500, status |-> "pending", completedAt |-> 1]

\* Variant: the ride is built from the whole request body.
OrderedRide_FromBody(u, body) ==
  [NewRide(u) EXCEPT !.rideType = body.rideType, !.totalFare = body.totalFare,
                     !.status = body.status, !.completedAt = body.completedAt]

\* new Ride({ userId: req.user.id, status: 'pending', ... }): the fields the
\* handler names, taken from the body, and the schema defaults for the rest.
OrderedRide(u, body) ==
  [NewRide(u) EXCEPT !.rideType = body.rideType, !.totalFare = body.totalFare]

\* POST /api/rides/order
Order(u, body) ==
  /\ IF body.rideType = "" \/ body.totalFare = 0
     THEN Respond("order", 400) /\ UNCHANGED rides
     ELSE IF ~ConfigFound(body.rideType)
     THEN Respond("order", 400) /\ UNCHANGED rides
     ELSE IF body.rideType \notin RideTypeEnum
     THEN \* ride.save() throws a ValidationError, caught as a server error
          Respond("order", 500) /\ UNCHANGED rides
     ELSE /\ \E r \in RideIds \ DOMAIN rides :
               /\ r = Cardinality(DOMAIN rides) + 1
               /\ rides' = (r :> OrderedRide(u, body)) @@ rides
          /\ Respond("order", 201)
  /\ UNCHANGED <<users, drivers, nextDriver, now, reqs, vehicles>>

\* Frame of a handler that writes at most the Ride collection.
RideFrame == UNCHANGED <<users, drivers, nextDriver, reqs, vehicles>>

\* An early return: the response and nothing else.
Reject(op, c) == Respond(op, c) /\ UNCHANGED <<rides, now>>

\* A rejection whose message carries a status: `Ride is already ${status}`.
RejectNaming(op, c, status) ==
  /\ last' = [op |-> op, code |-> c, names |-> status]
  /\ UNCHANGED <<rides, now>>

\* Variant: a completed ride may still be cancelled.
CancelBlocked_OnlyCancelled(status) == status = "cancelled"

\* Variant: an accepted ride can no longer be cancelled.
CancelBlocked_Accepted(status) == status \in {"completed", "cancelled", "accepted"}

\* "Check if ride can be cancelled": the statuses that cannot.
CancelBlocked(status) == status \in {"completed", "cancelled"}

\* POST /api/rides/:id/cancel
Cancel(u, r) ==
  /\ IF ~(r \in DOMAIN rides /\ rides[r].userId = u)
     THEN Reject("cancel", 404)
     ELSE IF CancelBlocked(rides[r].status)
     THEN RejectNaming("cancel", 400, rides[r].status)
     ELSE /\ rides' = [rides EXCEPT ![r].status = "cancelled", ![r].cancelledAt = now]
          /\ now' = Later(now)
          /\ Respond("cancel", 200)
  /\ RideFrame

\* Variant: the lookup does not ask whose ride it is.
AwaitingRideOf_AnyDriver(r, p) ==
  /\ r \in DOMAIN rides
  /\ rides[r].status = "awaiting_driver_confirmation"

\* The ride a driver may answer: Ride.findOne({_id, driverId, status}).
AwaitingRideOf(r, p) ==
  /\ r \in DOMAIN rides
  /\ rides[r].driverId = p
  /\ rides[r].status = "awaiting_driver_confirmation"

\* POST /api/rides/:id/accept
Accept(u, r) ==
  /\ LET driverDetail == DriverDetail_findByUser(u) IN
     IF driverDetail = Null
     THEN Reject("accept", 404)
     ELSE IF ~AwaitingRideOf(r, driverDetail)
     THEN Reject("accept", 404)
     ELSE /\ rides' = [rides EXCEPT ![r].status = "accepted", ![r].acceptedAt = now]
          /\ now' = Later(now)
          /\ Respond("accept", 200)
  /\ RideFrame

\* Variant: the decline also releases the driver.
DeclinedRide_ReleasesDriver(ride) ==
  [ride EXCEPT !.status = "cancelled", !.cancelledAt = now, !.driverId = Null]

\* ride.status = 'cancelled'; ride.cancelledAt = new Date()
DeclinedRide(ride) == [ride EXCEPT !.status = "cancelled", !.cancelledAt = now]

\* POST /api/rides/:id/decline
Decline(u, r) ==
  /\ LET driverDetail == DriverDetail_findByUser(u) IN
     IF driverDetail = Null
     THEN Reject("decline", 404)
     ELSE IF ~AwaitingRideOf(r, driverDetail)
     THEN Reject("decline", 404)
     ELSE /\ rides' = [rides EXCEPT ![r] = DeclinedRide(rides[r])]
          /\ now' = Later(now)
          /\ Respond("decline", 200)
  /\ RideFrame

\* Variant: a patch back to searching also releases the driver.
StampStatus_ReleasesDriver(ride, status) ==
  IF status = "in_progress" THEN [ride EXCEPT !.status = status, !.startedAt = now]
  ELSE IF status = "completed" THEN [ride EXCEPT !.status = status, !.completedAt = now]
  ELSE IF status = "searching" THEN [ride EXCEPT !.status = status, !.driverId = Null]
  ELSE [ride EXCEPT !.status = status]

\* Variant: a patch back to pending also clears the fare.
StampStatus_ResetsFare(ride, status) ==
  IF status = "in_progress" THEN [ride EXCEPT !.status = status, !.startedAt = now]
  ELSE IF status = "completed" THEN [ride EXCEPT !.status = status, !.completedAt = now]
  ELSE IF status = "pending" THEN [ride EXCEPT !.status = status, !.totalFare = 0]
  ELSE [ride EXCEPT !.status = status]

\* The body of both status patches: ride.status = status, then the
\* timestamp of the target status.  pickedUpAt is not a path of RideSchema,
\* so the assignment for picked_up stores nothing.
StampStatus(ride, status) ==
  IF status = "in_progress" THEN [ride EXCEPT !.status = status, !.startedAt = now]
  ELSE IF status = "completed" THEN [ride EXCEPT !.status = status, !.completedAt = now]
  ELSE [ride EXCEPT !.status = status]

\* The clock after a status patch: the branches for picked_up, in_progress
\* and completed each call new Date().
StampClock(status) ==
  IF status \in {"picked_up", "in_progress", "completed"} THEN Later(now) ELSE now

\* ride.userId.toString() === req.user.id
isRider(u, r) == rides[r].userId = u

\* Variant: any account with a driver detail counts as the ride's driver.
isDriver_AnyDetail(u, r) == DriverDetail_findByUser(u) # Null

\* driverDetail && ride.driverId && ride.driverId._id equals driverDetail._id,
\* where ride.driverId was populated (null when the document is gone).
isDriver(u, r) ==
  LET driverDetail == DriverDetail_findByUser(u)
      populated == DriverDetail_findById(rides[r].driverId)
  IN driverDetail # Null /\ populated # Null /\ populated = driverDetail

\* PATCH /api/rides/:id/status
PatchStatus(u, r, status) ==
  /\ IF status \notin Statuses
     THEN Reject("patch", 400)
     ELSE IF r \notin DOMAIN rides
     THEN Reject("patch", 404)
     ELSE IF ~isRider(u, r) /\ ~isDriver(u, r)
     THEN Reject("patch", 403)
     ELSE /\ rides' = [rides EXCEPT ![r] = StampStatus(rides[r], status)]
          /\ now' = StampClock(status)
          /\ Respond("patch", 200)
  /\ RideFrame

\* Variant: the assign also takes a ride that is searching.
AssignableStatus_Searching(status) == status \in {"pending", "searching"}

\* PUT /api/admin/rides/:rideId/assign, "Check if ride is in pending state"
AssignableStatus(status) == status = "pending"

\* PUT /api/admin/rides/:rideId/assign, "Check if driver exists": the
\* DriverDetail found for the reference, by its own id first and by the id of
\* its user otherwise; Null when there is none.
FindDriverDetail(driverId) ==
  IF DriverDetail_findById(driverId) # Null
  THEN driverId
  ELSE DriverDetail_findByUser(driverId)

\* Variant: the assign stores the reference of the request as it came.
StoredDriverId_Raw(driverId, driverDetail) == driverId

\* The id the assign stores: let driverDetailId = driverId, replaced by
\* driverDetail._id when the detail was found through its user.
StoredDriverId(driverId, driverDetail) ==
  IF DriverDetail_findById(driverId) # Null
  THEN driverId
  ELSE driverDetail

\* Variant: the role check looks up the user under the driver detail's id.
DriverUserValid_ByDetailId(p) == User_findById(p) # Null /\ users[p] = "driver"

\* PUT /api/admin/rides/:rideId/assign, "Verify the associated user is a driver"
DriverUserValid(p) ==
  User_findById(drivers[p].userId) # Null /\ users[drivers[p].userId] = "driver"

\* PUT /api/admin/rides/:rideId/assign
AdminAssign(a, r, driverId) ==
  /\ IF ~isAdmin(a)
     THEN Reject("assign", 403)
     ELSE IF driverId = Null
     THEN Reject("assign", 400)
     ELSE IF r \notin DOMAIN rides
     THEN Reject("assign", 404)
     ELSE IF ~AssignableStatus(rides[r].status)
     THEN Reject("assign", 400)
     ELSE LET driverDetail == FindDriverDetail(driverId) IN
          IF driverDetail = Null
          THEN Reject("assign", 404)
          ELSE IF ~DriverUserValid(driverDetail)
          THEN Reject("assign", 404)
          ELSE /\ rides' = [rides EXCEPT ![r].driverId = StoredDriverId(driverId, driverDetail),
                                         ![r].status = "awaiting_driver_confirmation",
                                         ![r].acceptedAt = now]
               /\ now' = Later(now)
               /\ Respond("assign", 200)
  /\ RideFrame

\* PUT /api/admin/rides/:rideId/complete
AdminComplete(a, r) ==
  /\ IF ~isAdmin(a)
     THEN Reject("complete", 403)
     ELSE IF r \notin DOMAIN rides
     THEN Reject("complete", 404)
     ELSE IF rides[r].status \notin {"accepted", "in_progress", "arrived"}
     THEN Reject("complete", 400)
     ELSE /\ rides' = [rides EXCEPT ![r].status = "completed", ![r].completedAt = now]
          /\ now' = Later(now)
          /\ Respond("complete", 200)
  /\ RideFrame

\* PUT /api/admin/rides/:rideId/decline
AdminDecline(a, r) ==
  /\ IF ~isAdmin(a)
     THEN Reject("adminDecline", 403)
     ELSE IF r \notin DOMAIN rides
     THEN Reject("adminDecline", 404)
     ELSE IF rides[r].status \in {"completed", "cancelled"}
     THEN RejectNaming("adminDecline", 400, rides[r].status)
     ELSE /\ rides' = [rides EXCEPT ![r].status = "cancelled", ![r].cancelledAt = now]
          /\ now' = Later(now)
          /\ Respond("adminDecline", 200)
  /\ RideFrame

\* PATCH /api/admin/rides/:rideId/status
AdminPatchStatus(a, r, status) ==
  /\ IF ~isAdmin(a)
     THEN Reject("adminPatch", 403)
     ELSE IF status \notin Statuses
     THEN Reject("adminPatch", 400)
     ELSE IF r \notin DOMAIN rides
     THEN Reject("adminPatch", 404)
     ELSE /\ rides' = [rides EXCEPT ![r] = StampStatus(rides[r], status)]
          /\ now' = StampClock(status)
          /\ Respond("adminPatch", 200)
  /\ RideFrame

\* Frame of a handler that writes only users and driver details.
DirectoryFrame == UNCHANGED <<rides, now, reqs>>

\* POST /api/admin/drivers/details
CreateDriverDetails(caller, userId) ==
  /\ IF User_findById(userId) = Null
     THEN Respond("createDriver", 404) /\ UNCHANGED <<drivers, nextDriver>>
     ELSE IF users[userId] # "driver"
     THEN Respond("createDriver", 400) /\ UNCHANGED <<drivers, nextDriver>>
     ELSE IF DriverDetail_findByUser(userId) # Null
     THEN Respond("createDriver", 400) /\ UNCHANGED <<drivers, nextDriver>>
     ELSE /\ nextDriver <= MaxProfiles
          /\ drivers' = (P(nextDriver) :> NewDriver(userId)) @@ drivers
          /\ nextDriver' = nextDriver + 1
          /\ Respond("createDriver", 201)
  /\ UNCHANGED <<users, vehicles>>
  /\ DirectoryFrame

\* driverDetail.vehicleId, or Null when the path is absent or null.
VehicleOf(p) == IF drivers[p].vehicleId \in {Absent, Null} THEN Null ELSE drivers[p].vehicleId

\* Vehicle.findByIdAndUpdate(id, { status }): nothing when there is no such
\* document.
SetVehicleStatus(vs, id, status) ==
  IF id \in DOMAIN vs THEN [vs EXCEPT ![id].status = status] ELSE vs

\* DELETE /api/admin/drivers/:id
DeleteDriver(a, id) ==
  /\ IF ~isAdmin(a)
     THEN Respond("deleteDriver", 403) /\ UNCHANGED <<users, drivers, vehicles>>
     ELSE LET driverDetail == DriverDetail_findByUser(id) IN
          /\ vehicles' = IF driverDetail # Null /\ VehicleOf(driverDetail) # Null
                         THEN SetVehicleStatus(vehicles, VehicleOf(driverDetail), "available")
                         ELSE vehicles
          /\ drivers' = [p \in DOMAIN drivers \ {driverDetail} |-> drivers[p]]
          /\ IF User_findById(id) = Null
             THEN Respond("deleteDriver", 404) /\ UNCHANGED users
             ELSE users' = [users EXCEPT ![id] = "none"] /\ Respond("deleteDriver", 200)
  /\ UNCHANGED nextDriver
  /\ DirectoryFrame

\* PUT /api/admin/users/:id
UpdateUser(a, id, role) ==
  /\ IF User_findById(a) = Null
     THEN Respond("updateUser", 401) /\ UNCHANGED users
     ELSE IF users[a] # "admin"
     THEN Respond("updateUser", 403) /\ UNCHANGED users
     ELSE IF User_findById(id) = Null
     THEN Respond("updateUser", 404) /\ UNCHANGED users
     ELSE users' = [users EXCEPT ![id] = role] /\ Respond("updateUser", 200)
  /\ UNCHANGED <<drivers, nextDriver, vehicles>>
  /\ DirectoryFrame

\* DELETE /api/admin/users/:id
DeleteUser(a, id) ==
  /\ IF User_findById(a) = Null
     THEN Respond("deleteUser", 401) /\ UNCHANGED users
     ELSE IF users[a] # "admin"
     THEN Respond("deleteUser", 403) /\ UNCHANGED users
     ELSE IF a = id
     THEN Respond("deleteUser", 400) /\ UNCHANGED users
     ELSE IF User_findById(id) = Null
     THEN Respond("deleteUser", 404) /\ UNCHANGED users
     ELSE users' = [users EXCEPT ![id] = "none"] /\ Respond("deleteUser", 200)
  /\ UNCHANGED <<drivers, nextDriver, vehicles>>
  /\ DirectoryFrame

\* The account the user-management requests of the exploration name, and the
\* roles they set: the rider, the second driver and the administrator keep
\* their accounts.
ManagedUsers == {DriverA}
ManagedRoles == {"user", "driver"}

\* Callers of the exploration: the rider and the two driver accounts call the
\* rider and driver routes, the administrator and one other account call the
\* administrator routes.
Riders == {Rider}
Callers == {Rider, DriverA, DriverB}
AdminCallers == {Admin, Rider}

Next ==
  \/ \E u \in Riders, body \in OrderBodies : Order(u, body)
  \/ \E u \in Callers, r \in RideIds : Cancel(u, r)
  \/ \E u \in Callers, r \in RideIds : Accept(u, r)
  \/ \E u \in Callers, r \in RideIds : Decline(u, r)
  \/ \E u \in Callers, r \in RideIds, s \in RequestStatuses : PatchStatus(u, r, s)
  \/ \E a \in AdminCallers, r \in RideIds, d \in DriverRefs : AdminAssign(a, r, d)
  \/ \E a \in AdminCallers, r \in RideIds : AdminComplete(a, r)
  \/ \E a \in AdminCallers, r \in RideIds : AdminDecline(a, r)
  \/ \E a \in AdminCallers, r \in RideIds, s \in RequestStatuses : AdminPatchStatus(a, r, s)
  \/ \E c \in {Admin}, u \in UserIds : CreateDriverDetails(c, u)
  \/ \E a \in AdminCallers, u \in ManagedUsers : DeleteDriver(a, u)
  \/ \E a \in AdminCallers, u \in ManagedUsers, role \in ManagedRoles : UpdateUser(a, u, role)
  \/ \E a \in AdminCallers, u \in ManagedUsers : DeleteUser(a, u)

Spec == Init /\ [][Next]_vars

\* ------------------------------------------------------------------------
\* Interleaved requests.  A handler runs up to its next await, other
\* requests run, and it continues with the ride document it read before.
\* reqs[i] is the request in flight in slot i: its route, its position, the
\* caller, the ride id, the driver reference, the driver detail found for it
\* and, once it has answered, the response status.
\* ------------------------------------------------------------------------
MaxReqs == 2
Slots == 1..MaxReqs

NoReq == [op |-> "none", pc |-> "idle", caller |-> Null, ride |-> 0, arg |-> Null,
          driverDetail |-> Null, code |-> 0]

\* Slot i answers with status c.
Answer(i, c) == reqs' = [reqs EXCEPT ![i].pc = "done", ![i].code = c]

\* Slot i moves on to position pc.
Goto(i, pc) == reqs' = [reqs EXCEPT ![i].pc = pc]

\* A request enters slot i.
Enter(i, op, caller, r, arg, pc, c) ==
  reqs' = [reqs EXCEPT ![i] = [op |-> op, pc |-> pc, caller |-> caller, ride |-> r,
                               arg |-> arg, driverDetail |-> Null, code |-> c]]

At(i, op, pc) == reqs[i].op = op /\ reqs[i].pc = pc

\* Frame of a step that reads only.
ReadFrame == UNCHANGED <<users, drivers, nextDriver, rides, now, last, vehicles>>
\* Frame of a step that saves the ride.
SaveFrame == UNCHANGED <<users, drivers, nextDriver, last, vehicles>>

\* The state the races start from: a pending ride of the rider, and both
\* drivers registered with a driver detail.
InitRace ==
  /\ users = (Rider :> "user" @@ DriverA :> "driver" @@ DriverB :> "driver" @@ Admin :> "admin")
  /\ drivers = (P(1) :> NewDriver(DriverA)) @@ (P(2) :> NewDriver(DriverB))
  /\ nextDriver = 3
  /\ rides = (1 :> OrderedRide(Rider, PlainOrder))
  /\ now = 1
  /\ last = [op |-> "none", code |-> 0]
  /\ reqs = [i \in Slots |-> NoReq]
  /\ vehicles = NoVehicles

\* assign: isAdmin middleware and the check of the request body
AssignBegin(i, a, r, driverId) ==
  /\ reqs[i].pc = "idle"
  /\ IF ~isAdmin(a)
     THEN Enter(i, "assign", a, r, driverId, "done", 403)
     ELSE IF driverId = Null
     THEN Enter(i, "assign", a, r, driverId, "done", 400)
     ELSE Enter(i, "assign", a, r, driverId, "findRide", 0)
  /\ ReadFrame

\* assign: await Ride.findById and the check of its status
AssignFindRide(i) ==
  /\ At(i, "assign", "findRide")
  /\ IF reqs[i].ride \notin DOMAIN rides
     THEN Answer(i, 404)
     ELSE IF ~AssignableStatus(rides[reqs[i].ride].status)
     THEN Answer(i, 400)
     ELSE Goto(i, "findDriver")
  /\ ReadFrame

\* assign: await DriverDetail.findById, then DriverDetail.findOne by user
AssignFindDriver(i) ==
  /\ At(i, "assign", "findDriver")
  /\ LET driverDetail == FindDriverDetail(reqs[i].arg) IN
     IF driverDetail = Null
     THEN Answer(i, 404)
     ELSE reqs' = [reqs EXCEPT ![i].pc = "findUser", ![i].driverDetail = driverDetail,
                               ![i].arg = StoredDriverId(reqs[i].arg, driverDetail)]
  /\ ReadFrame

\* assign: await User.findById and the check of the role
AssignFindUser(i) ==
  /\ At(i, "assign", "findUser")
  /\ IF ~DriverUserValid(reqs[i].driverDetail)
     THEN Answer(i, 404)
     ELSE Goto(i, "save")
  /\ ReadFrame

\* assign: the three assignments and await ride.save()
AssignSave(i) ==
  /\ At(i, "assign", "save")
  /\ rides' = [rides EXCEPT ![reqs[i].ride].driverId = reqs[i].arg,
                            ![reqs[i].ride].status = "awaiting_driver_confirmation",
                            ![reqs[i].ride].acceptedAt = now]
  /\ now' = Later(now)
  /\ Answer(i, 200)
  /\ SaveFrame

NextAssignRace ==
  \/ \E i \in Slots, a \in AdminCallers, r \in RideIds, d \in DriverRefs : AssignBegin(i, a, r, d)
  \/ \E i \in Slots : AssignFindRide(i)
  \/ \E i \in Slots : AssignFindDriver(i)
  \/ \E i \in Slots : AssignFindUser(i)
  \/ \E i \in Slots : AssignSave(i)

SpecAssignRace == InitRace /\ [][NextAssignRace]_vars
\* cancel: await Ride.findOne and the check of its status
CancelFind(i, u, r) ==
  /\ reqs[i].pc = "idle"
  /\ IF ~(r \in DOMAIN rides /\ rides[r].userId = u)
     THEN Enter(i, "cancel", u, r, Null, "done", 404)
     ELSE IF rides[r].status \in {"completed", "cancelled"}
     THEN Enter(i, "cancel", u, r, Null, "done", 400)
     ELSE Enter(i, "cancel", u, r, Null, "save", 0)
  /\ ReadFrame

\* cancel: the two assignments and await ride.save()
CancelSave(i) ==
  /\ At(i, "cancel", "save")
  /\ rides' = [rides EXCEPT ![reqs[i].ride].status = "cancelled",
                            ![reqs[i].ride].cancelledAt = now]
  /\ now' = Later(now)
  /\ Answer(i, 200)
  /\ SaveFrame

\* accept: await DriverDetail.findOne, await Ride.findOne
AcceptFind(i, u, r) ==
  /\ reqs[i].pc = "idle"
  /\ LET driverDetail == DriverDetail_findByUser(u) IN
     IF driverDetail = Null
     THEN Enter(i, "accept", u, r, Null, "done", 404)
     ELSE IF ~AwaitingRideOf(r, driverDetail)
     THEN Enter(i, "accept", u, r, Null, "done", 404)
     ELSE Enter(i, "accept", u, r, Null, "save", 0)
  /\ ReadFrame

\* accept: the two assignments and await ride.save()
AcceptSave(i) ==
  /\ At(i, "accept", "save")
  /\ rides' = [rides EXCEPT ![reqs[i].ride].status = "accepted",
                            ![reqs[i].ride].acceptedAt = now]
  /\ now' = Later(now)
  /\ Answer(i, 200)
  /\ SaveFrame

\* decline: await DriverDetail.findOne, await Ride.findOne
DeclineFind(i, u, r) ==
  /\ reqs[i].pc = "idle"
  /\ LET driverDetail == DriverDetail_findByUser(u) IN
     IF driverDetail = Null
     THEN Enter(i, "decline", u, r, Null, "done", 404)
     ELSE IF ~AwaitingRideOf(r, driverDetail)
     THEN Enter(i, "decline", u, r, Null, "done", 404)
     ELSE Enter(i, "decline", u, r, Null, "save", 0)
  /\ ReadFrame

\* decline: the two assignments and await ride.save()
DeclineSave(i) ==
  /\ At(i, "decline", "save")
  /\ rides' = [rides EXCEPT ![reqs[i].ride].status = "cancelled",
                            ![reqs[i].ride].cancelledAt = now]
  /\ now' = Later(now)
  /\ Answer(i, 200)
  /\ SaveFrame

\* admin complete: isAdmin, await Ride.findById and the check of its status
CompleteFind(i, a, r) ==
  /\ reqs[i].pc = "idle"
  /\ IF ~isAdmin(a)
     THEN Enter(i, "complete", a, r, Null, "done", 403)
     ELSE IF r \notin DOMAIN rides
     THEN Enter(i, "complete", a, r, Null, "done", 404)
     ELSE IF rides[r].status \notin {"accepted", "in_progress", "arrived"}
     THEN Enter(i, "complete", a, r, Null, "done", 400)
     ELSE Enter(i, "complete", a, r, Null, "save", 0)
  /\ ReadFrame

\* admin complete: the two assignments and await ride.save()
CompleteSave(i) ==
  /\ At(i, "complete", "save")
  /\ rides' = [rides EXCEPT ![reqs[i].ride].status = "completed",
                            ![reqs[i].ride].completedAt = now]
  /\ now' = Later(now)
  /\ Answer(i, 200)
  /\ SaveFrame

\* admin decline: isAdmin, await Ride.findById and the check of its status
AdminDeclineFind(i, a, r) ==
  /\ reqs[i].pc = "idle"
  /\ IF ~isAdmin(a)
     THEN Enter(i, "adminDecline", a, r, Null, "done", 403)
     ELSE IF r \notin DOMAIN rides
     THEN Enter(i, "adminDecline", a, r, Null, "done", 404)
     ELSE IF rides[r].status \in {"completed", "cancelled"}
     THEN Enter(i, "adminDecline", a, r, Null, "done", 400)
     ELSE Enter(i, "adminDecline", a, r, Null, "save", 0)
  /\ ReadFrame

\* admin decline: the two assignments and await ride.save()
AdminDeclineSave(i) ==
  /\ At(i, "adminDecline", "save")
  /\ rides' = [rides EXCEPT ![reqs[i].ride].status = "cancelled",
                            ![reqs[i].ride].cancelledAt = now]
  /\ now' = Later(now)
  /\ Answer(i, 200)
  /\ SaveFrame

\* The response is sent and the slot takes the next request.
Finish(i) ==
  /\ reqs[i].pc = "done"
  /\ reqs' = [reqs EXCEPT ![i] = NoReq]
  /\ ReadFrame

\* A step in which slot i saves the ride document.
SaveStep(i) ==
  \/ AssignSave(i)
  \/ CancelSave(i)
  \/ AcceptSave(i)
  \/ DeclineSave(i)
  \/ CompleteSave(i)
  \/ AdminDeclineSave(i)

NextRace ==
  \/ \E i \in Slots, a \in AdminCallers, r \in RideIds, d \in DriverRefs : AssignBegin(i, a, r, d)
  \/ \E i \in Slots : AssignFindRide(i)
  \/ \E i \in Slots : AssignFindDriver(i)
  \/ \E i \in Slots : AssignFindUser(i)
  \/ \E i \in Slots : AssignSave(i)
  \/ \E i \in Slots, u \in Callers, r \in RideIds : CancelFind(i, u, r)
  \/ \E i \in Slots : CancelSave(i)
  \/ \E i \in Slots, u \in Callers, r \in RideIds : AcceptFind(i, u, r)
  \/ \E i \in Slots : AcceptSave(i)
  \/ \E i \in Slots, u \in Callers, r \in RideIds : DeclineFind(i, u, r)
  \/ \E i \in Slots : DeclineSave(i)
  \/ \E i \in Slots, a \in AdminCallers, r \in RideIds : CompleteFind(i, a, r)
  \/ \E i \in Slots : CompleteSave(i)
  \/ \E i \in Slots, a \in AdminCallers, r \in RideIds : AdminDeclineFind(i, a, r)
  \/ \E i \in Slots : AdminDeclineSave(i)
  \/ \E i \in Slots : Finish(i)

SpecRace == InitRace /\ [][NextRace]_vars

\* ------------------------------------------------------------------------
\* Fare estimates.  Distances are counted in quarters of a kilometre: such a
\* distance and its products with the tariffs are exact as doubles, and up
\* to 30 km so is (distance / 30) * 60, so that Math.round sees the value
\* the arithmetic below computes.
\* ------------------------------------------------------------------------
MaxQuarters == 60

\* Math.round(num / den) for num >= 0: the nearest integer, the upper one
\* at a tie.
Math_round(num, den) == (2 * num + den) \div (2 * den)

\* Markers, below every amount, for a fare that is not a number and for a
\* field that is undefined.
NaN == 0 - 1

Undefined == 0 - 2

\* Variant: the service fee is taken from the fare before its parts are
\* rounded.
EstimateQuote_AddThenRound(rideType, quarters) ==
  LET config == PRICING_CONFIG[IF rideType \in DOMAIN PRICING_CONFIG THEN rideType ELSE "car"]
      estimatedDuration == Math_round(quarters, 2)
      distanceFare == Math_round(quarters * config.perKm, 4)
      timeFare == estimatedDuration * config.perMinute
      subtotal == config.baseFare + distanceFare + timeFare
      exact4 == 4 * config.baseFare + quarters * config.perKm + 2 * quarters * config.perMinute
      serviceFee == Math_round(exact4 * config.serviceFeePercent, 400)
  IN [duration |-> estimatedDuration, baseFare |-> config.baseFare,
      distanceFare |-> distanceFare, timeFare |-> timeFare,
      serviceFee |-> serviceFee, totalFare |-> subtotal + serviceFee]

\* "Calculate fare in Naira" for a distance of quarters / 4 km.  A config
\* found on the prototype has no tariff fields: every fare is NaN and
\* baseFare is undefined.
EstimateQuote(rideType, quarters) ==
  LET estimatedDuration == Math_round(quarters, 2)
  IN IF rideType \notin DOMAIN PRICING_CONFIG
     THEN [duration |-> estimatedDuration, baseFare |-> Undefined,
           distanceFare |-> NaN, timeFare |-> NaN, serviceFee |-> NaN, totalFare |-> NaN]
     ELSE LET config == PRICING_CONFIG[rideType]
              distanceFare == Math_round(quarters * config.perKm, 4)
              timeFare == Math_round(estimatedDuration * config.perMinute, 1)
              subtotal == config.baseFare + distanceFare + timeFare
              serviceFee == Math_round(subtotal * config.serviceFeePercent, 100)
              totalFare == Math_round(subtotal + serviceFee, 1)
          IN [duration |-> estimatedDuration, baseFare |-> config.baseFare,
              distanceFare |-> distanceFare, timeFare |-> timeFare,
              serviceFee |-> serviceFee, totalFare |-> totalFare]

\* Ride types a request may name: none, the three of the tariff, one that
\* is unknown and one that is a name of Object.prototype.
RequestRideTypes == {"", "bicycle", "motorcycle", "car", "truck", "constructor"}

\* Request bodies of an estimate, coordinates in degrees; 0 also stands for
\* a coordinate that is missing.
EstimateBodies ==
  [pickupLat : {0, 6}, pickupLng : {3}, destLat : {7}, destLng : {3},
   rideType : RequestRideTypes]

\* POST /api/rides/estimate, where quarters / 4 km is the distance that
\* calculateDistance returns for the coordinates.
Estimate(body, quarters) ==
  /\ IF \/ body.pickupLat = 0 \/ body.pickupLng = 0
        \/ body.destLat = 0 \/ body.destLng = 0
        \/ body.rideType = ""
     THEN Respond("estimate", 400)
     ELSE IF ~ConfigFound(body.rideType)
     THEN Respond("estimate", 400)
     ELSE last' = [op |-> "estimate", code |-> 200,
                   estimate |-> EstimateQuote(body.rideType, quarters)]
  /\ UNCHANGED <<users, drivers, nextDriver, rides, now, reqs, vehicles>>

\* Request bodies of an order with any of the ride types.
AnyOrderBodies ==
  [rideType : RequestRideTypes, totalFare : {0, 500}, status : {"pending"}, completedAt : {1}]

\* The slot of the estimate request.
EstimateSlots == {1}

\* An estimate request: its body and the distance of its coordinates.
EstimateRequests == [body : EstimateBodies, quarters : 0..MaxQuarters]

\* One estimate request has arrived, any of them; the collections are as in
\* Init.
InitEstimate ==
  /\ users = (Rider :> "user" @@ DriverA :> "driver" @@ DriverB :> "driver" @@ Admin :> "admin")
  /\ drivers = (P(1) :> NewDriver(DriverB))
  /\ nextDriver = 2
  /\ rides = [r \in {} |-> NewRide(Null)]
  /\ now = 1
  /\ last = [op |-> "none", code |-> 0]
  /\ reqs \in [EstimateSlots -> EstimateRequests]
  /\ vehicles = NoVehicles

NextEstimate ==
  \/ \E i \in EstimateSlots : Estimate(reqs[i].body, reqs[i].quarters)
  \/ \E u \in Riders, body \in AnyOrderBodies : Order(u, body)

SpecEstimate == InitEstimate /\ [][NextEstimate]_vars

\* ------------------------------------------------------------------------
\* Ratings.  Several completed rides of one rider, rated one after another
\* while an administrator moves their statuses.
\* ------------------------------------------------------------------------
MaxRides == 3

RatedRideIds == 1..MaxRides

\* Ratings a request body may carry: 0 for none, and one above the range.
RequestRatings == {0, 3, 4, 5, 6}

\* Variant: the lookup takes only a ride that has a driver.
RatableRide_WithDriver(u, r) ==
  /\ r \in DOMAIN rides
  /\ rides[r].userId = u
  /\ rides[r].status = "completed"
  /\ rides[r].driverId # Null

\* Variant: the lookup takes a ride of the caller in any status.
RatableRide_AnyStatus(u, r) == r \in DOMAIN rides /\ rides[r].userId = u

\* Ride.findOne({ _id, userId: req.user.id, status: 'completed' })
RatableRide(u, r) ==
  /\ r \in DOMAIN rides
  /\ rides[r].userId = u
  /\ rides[r].status = "completed"

\* Variant: a ride is never taken as rated.
AlreadyRated_Never(ride) == FALSE

\* if (ride.riderRating)
AlreadyRated(ride) == ride.riderRating # 0

\* Ride.find({ driverId, riderRating: { $exists: true } }) over the rides as
\* stored: riderRating has the schema default null, which every ride
\* document stores, and $exists matches a stored null.
DriverRides(rs, driverId) == {q \in DOMAIN rs : rs[q].driverId = driverId}

\* reduce((sum, r) => sum + r.riderRating, 0): a null rating adds 0.
RECURSIVE SumRatings(_, _)
SumRatings(rs, S) ==
  IF S = {} THEN 0
  ELSE LET q == CHOOSE x \in S : TRUE
       IN rs[q].riderRating + SumRatings(rs, S \ {q})

\* parseFloat((sum / n).toFixed(1)), in tenths: the nearest tenth, the upper
\* one at a tie.  A tie needs n to be a multiple of 4; for n below 20 the
\* quotient of a tie is a binary fraction, which toFixed sees exactly.
ToFixed1(sum, n) == (20 * sum + n) \div (2 * n)

\* The driver details after "Update driver's average rating": nothing when
\* the ride has no driver or its driver detail is gone.
UpdateAverage(rs, driverId) ==
  IF driverId = Null \/ driverId \notin DOMAIN drivers
  THEN drivers
  ELSE LET driverRides == DriverRides(rs, driverId)
           averageRating == ToFixed1(SumRatings(rs, driverRides), Cardinality(driverRides))
       IN [drivers EXCEPT ![driverId].driverRating = averageRating]

\* POST /api/rides/:id/rate
Rate(u, r, rating) ==
  /\ IF rating = 0 \/ rating < 1 \/ rating > 5
     THEN Respond("rate", 400) /\ UNCHANGED <<rides, drivers>>
     ELSE IF ~RatableRide(u, r)
     THEN Respond("rate", 404) /\ UNCHANGED <<rides, drivers>>
     ELSE IF AlreadyRated(rides[r])
     THEN Respond("rate", 400) /\ UNCHANGED <<rides, drivers>>
     ELSE /\ rides' = [rides EXCEPT ![r].riderRating = rating]
          /\ drivers' = UpdateAverage(rides', rides[r].driverId)
          /\ Respond("rate", 200)
  /\ UNCHANGED <<users, nextDriver, now, reqs, vehicles>>

\* The driver of the rides of this part: the first driver detail, and none
\* for the last ride.
DriverOfRide(r) == IF r = MaxRides THEN Null ELSE P(1)

\* A ride that was ordered, assigned, accepted and completed.
CompletedRide(u, driverId) ==
  [OrderedRide(u, PlainOrder) EXCEPT !.driverId = driverId, !.status = "completed",
                                     !.acceptedAt = MaxTime, !.completedAt = MaxTime]

\* The rider's rides are completed and unrated, on a clock that has reached
\* the resolution of the exploration.
InitRate ==
  /\ users = (Rider :> "user" @@ DriverA :> "driver" @@ DriverB :> "driver" @@ Admin :> "admin")
  /\ drivers = (P(1) :> NewDriver(DriverA)) @@ (P(2) :> NewDriver(DriverB))
  /\ nextDriver = 3
  /\ rides = [r \in RatedRideIds |-> CompletedRide(Rider, DriverOfRide(r))]
  /\ now = MaxTime
  /\ last = [op |-> "none", code |-> 0]
  /\ reqs = Idle
  /\ vehicles = NoVehicles

\* Callers of the rate route: the rides' owner and another account.
RateCallers == {Rider, DriverA}
\* Statuses the administrator moves a rated ride to and back.
ReopenStatuses == {"accepted", "completed"}

NextRate ==
  \/ \E u \in RateCallers, r \in RatedRideIds, rating \in RequestRatings : Rate(u, r, rating)
  \/ \E r \in RatedRideIds, s \in ReopenStatuses : AdminPatchStatus(Admin, r, s)

SpecRate == InitRate /\ [][NextRate]_vars

\* ------------------------------------------------------------------------
\* Vehicles.  The administrator's vehicle and assignment routes over two
\* registered vehicles and two drivers, and the rider's query for the
\* drivers that can take a ride.
FleetVehicles == {V(1), V(2)}
FleetProfiles == {P(1), P(2)}
FleetDriverUsers == {DriverA, DriverB}

\* Frame of a handler that writes only vehicles and driver details.
FleetFrame == UNCHANGED <<users, nextDriver, rides, now, reqs>>

Vehicle_findById(id) == IF id \in DOMAIN vehicles THEN id ELSE Null

\* The message of the response to an assignment of an assigned vehicle.
AlreadyAssigned == "Vehicle is already assigned to another driver"
Conflict == [op |-> "assignVehicle", code |-> 400, message |-> AlreadyAssigned]

VehicleTaken_Never(vehicleId) == FALSE

\* vehicle.status === 'assigned'
VehicleTaken(vehicleId) == vehicles[vehicleId].status = "assigned"

\* POST /api/admin/drivers/:id/assign-vehicle, as routes/admin/driver.js
\* serves it: its router is mounted before the one of routes/admin/vehicle.js,
\* whose route of the same path is never reached.  A Null vehicleId is a body
\* without the field.
AssignVehicle(a, id, vehicleId) ==
  /\ IF ~isAdmin(a)
     THEN Respond("assignVehicle", 403) /\ UNCHANGED <<vehicles, drivers>>
     ELSE IF vehicleId = Null
     THEN Respond("assignVehicle", 400) /\ UNCHANGED <<vehicles, drivers>>
     ELSE IF Vehicle_findById(vehicleId) = Null
     THEN Respond("assignVehicle", 404) /\ UNCHANGED <<vehicles, drivers>>
     ELSE IF VehicleTaken(vehicleId)
     THEN last' = Conflict /\ UNCHANGED <<vehicles, drivers>>
     ELSE IF DriverDetail_findById(id) = Null
     THEN Respond("assignVehicle", 404) /\ UNCHANGED <<vehicles, drivers>>
     ELSE /\ vehicles' = [vehicles EXCEPT ![vehicleId].status = "assigned"]
          /\ drivers' = [drivers EXCEPT ![id].vehicleId = vehicleId]
          /\ Respond("assignVehicle", 200)
  /\ FleetFrame

UnassignedDriver_Kept(driverDetail) == driverDetail

\* driverDetail.vehicleId = null
UnassignedDriver(driverDetail) == [driverDetail EXCEPT !.vehicleId = Null]

\* POST /api/admin/drivers/:driverId/unassign-vehicle
UnassignVehicle(a, driverId) ==
  /\ IF ~isAdmin(a)
     THEN Respond("unassignVehicle", 403) /\ UNCHANGED <<vehicles, drivers>>
     ELSE LET driverDetail == DriverDetail_findByUser(driverId) IN
          IF driverDetail = Null
          THEN Respond("unassignVehicle", 404) /\ UNCHANGED <<vehicles, drivers>>
          ELSE IF VehicleOf(driverDetail) = Null
          THEN Respond("unassignVehicle", 400) /\ UNCHANGED <<vehicles, drivers>>
          ELSE /\ vehicles' = SetVehicleStatus(vehicles, VehicleOf(driverDetail), "available")
               /\ drivers' = [drivers EXCEPT ![driverDetail] = UnassignedDriver(drivers[driverDetail])]
               /\ Respond("unassignVehicle", 200)
  /\ FleetFrame

\* Bodies of a vehicle update: "" is a field the body leaves out.
VehicleUpdates == [vehicleType : {"", "suv"}, status : {"", "available", "maintenance"}]

\* PUT /api/admin/vehicles/:id
UpdateVehicle(a, id, body) ==
  /\ IF ~isAdmin(a)
     THEN Respond("updateVehicle", 403) /\ UNCHANGED vehicles
     ELSE IF Vehicle_findById(id) = Null
     THEN Respond("updateVehicle", 404) /\ UNCHANGED vehicles
     ELSE /\ vehicles' = [vehicles EXCEPT
                 ![id].vehicleType = IF body.vehicleType # "" THEN body.vehicleType ELSE @,
                 ![id].status = IF body.status # "" THEN body.status ELSE @]
          /\ Respond("updateVehicle", 200)
  /\ UNCHANGED drivers
  /\ FleetFrame

\* DELETE /api/admin/vehicles/:id
DeleteVehicle(a, id) ==
  /\ IF ~isAdmin(a)
     THEN Respond("deleteVehicle", 403) /\ UNCHANGED vehicles
     ELSE IF Vehicle_findById(id) = Null
     THEN Respond("deleteVehicle", 404) /\ UNCHANGED vehicles
     ELSE IF \E p \in DOMAIN drivers : drivers[p].vehicleId = id
     THEN Respond("deleteVehicle", 400) /\ UNCHANGED vehicles
     ELSE /\ vehicles' = [v \in DOMAIN vehicles \ {id} |-> vehicles[v]]
          /\ Respond("deleteVehicle", 200)
  /\ UNCHANGED drivers
  /\ FleetFrame

\* DriverDetail.find({ vehicleId: { $exists: false }, status: 'active',
\* isVerified: true }): status and isVerified are not paths of the schema, so
\* no document stores them.  With strictQuery the filter loses them and the
\* query matches the documents that do not store vehicleId; without it they
\* stay in the filter and no document matches.  A vehicleId of null is stored.
SelfPowered(strictQuery) ==
  IF strictQuery THEN {p \in DOMAIN drivers : drivers[p].vehicleId = Absent} ELSE {}

\* GET /api/rides/:id/available-drivers.  For a motorcycle or car ride the
\* handler calls limit on the promise that then() returned: the TypeError is
\* caught as a server error.  Which strictQuery the build has is not fixed by
\* the repository.
AvailableDrivers(u, r) ==
  /\ IF ~(r \in DOMAIN rides /\ rides[r].userId = u /\ rides[r].status = "searching")
     THEN Respond("availableDrivers", 404)
     ELSE IF rides[r].rideType = "bicycle"
     THEN \E strictQuery \in BOOLEAN :
            last' = [op |-> "availableDrivers", code |-> 200,
                     availableDrivers |-> SelfPowered(strictQuery)]
     ELSE Respond("availableDrivers", 500)
  /\ UNCHANGED <<users, drivers, nextDriver, rides, now, reqs, vehicles>>

\* The type the vehicle is registered with.
RegisteredType(v) == IF v = V(2) THEN "motorcycle" ELSE "sedan"

\* A ride of the given type that looks for a driver.
SearchingRide(u, rideType) ==
  [OrderedRide(u, PlainOrder) EXCEPT !.rideType = rideType, !.status = "searching"]

\* Both drivers have their details, the vehicles are registered and
\* available, and the rider has a ride that looks for a driver.
InitFleet ==
  /\ users = (Rider :> "user" @@ DriverA :> "driver" @@ DriverB :> "driver" @@ Admin :> "admin")
  /\ drivers = (P(1) :> NewDriver(DriverA)) @@ (P(2) :> NewDriver(DriverB))
  /\ nextDriver = 3
  /\ \E rideType \in RideTypeEnum : rides = (1 :> SearchingRide(Rider, rideType))
  /\ now = 1
  /\ last = [op |-> "none", code |-> 0]
  /\ reqs = Idle
  /\ vehicles = [v \in FleetVehicles |-> NewVehicle(RegisteredType(v))]

\* Vehicle ids a request may name: a registered one or none.
VehicleRefs == FleetVehicles \cup {Null}

NextFleet ==
  \/ \E a \in AdminCallers, id \in FleetProfiles, v \in VehicleRefs : AssignVehicle(a, id, v)
  \/ \E a \in AdminCallers, u \in FleetDriverUsers : UnassignVehicle(a, u)
  \/ \E a \in AdminCallers, v \in FleetVehicles, body \in VehicleUpdates : UpdateVehicle(a, v, body)
  \/ \E a \in AdminCallers, v \in FleetVehicles : DeleteVehicle(a, v)
  \/ \E a \in AdminCallers, u \in FleetDriverUsers : DeleteDriver(a, u)
  \/ \E u \in Callers, r \in RideIds : AvailableDrivers(u, r)

SpecFleet == InitFleet /\ [][NextFleet]_vars

\* The assignment routes alone: assign, unassign and driver delete.
NextAssignment ==
  \/ \E a \in AdminCallers, id \in FleetProfiles, v \in VehicleRefs : AssignVehicle(a, id, v)
  \/ \E a \in AdminCallers, u \in FleetDriverUsers : UnassignVehicle(a, u)
  \/ \E a \in AdminCallers, u \in FleetDriverUsers : DeleteDriver(a, u)

SpecAssignment == InitFleet /\ [][NextAssignment]_vars
\* ------------------------------------------------------------------------
\* The rider's active ride, asked for while the ride moves through its
\* statuses.
NoRide == 0

\* The statuses the query of GET /api/rides/active names.
ActiveQueryStatuses == {"pending", "searching", "accepted", "arrived", "in_progress"}

\* GET /api/rides/active: findOne answers one of the matching rides, or null.
GetActive(u) ==
  /\ LET found == {r \in DOMAIN rides :
                     rides[r].userId = u /\ rides[r].status \in ActiveQueryStatuses} IN
     IF found = {}
     THEN last' = [op |-> "active", code |-> 200, ride |-> NoRide]
     ELSE \E r \in found : last' = [op |-> "active", code |-> 200, ride |-> r]
  /\ UNCHANGED <<users, drivers, nextDriver, rides, now, reqs, vehicles>>

NextActive ==
  \/ \E u \in Riders, body \in OrderBodies : Order(u, body)
  \/ \E u \in Callers, r \in RideIds : Cancel(u, r)
  \/ \E u \in Callers, r \in RideIds : Accept(u, r)
  \/ \E u \in Callers, r \in RideIds : Decline(u, r)
  \/ \E u \in Callers, r \in RideIds, s \in RequestStatuses : PatchStatus(u, r, s)
  \/ \E a \in AdminCallers, r \in RideIds, d \in DriverRefs : AdminAssign(a, r, d)
  \/ \E u \in Callers : GetActive(u)

SpecActive == Init /\ [][NextActive]_vars

\* ------------------------------------------------------------------------
\* Every route that writes a ride, on one ride: the rider's, the driver's
\* and the administrator's, the rating included.
NextRides ==
  \/ \E u \in Riders, body \in OrderBodies : Order(u, body)
  \/ \E u \in Callers, r \in RideIds : Cancel(u, r)
  \/ \E u \in Callers, r \in RideIds : Accept(u, r)
  \/ \E u \in Callers, r \in RideIds : Decline(u, r)
  \/ \E u \in Callers, r \in RideIds, s \in RequestStatuses : PatchStatus(u, r, s)
  \/ \E a \in AdminCallers, r \in RideIds, d \in DriverRefs : AdminAssign(a, r, d)
  \/ \E a \in AdminCallers, r \in RideIds : AdminComplete(a, r)
  \/ \E a \in AdminCallers, r \in RideIds : AdminDecline(a, r)
  \/ \E a \in AdminCallers, r \in RideIds, s \in RequestStatuses : AdminPatchStatus(a, r, s)
  \/ \E u \in Callers, r \in RideIds, rating \in RequestRatings : Rate(u, r, rating)

SpecRides == Init /\ [][NextRides]_vars

\* ------------------------------------------------------------------------
\* calculateDistance, in fixed-point arithmetic: angles in whole degrees on a
\* grid of 30 degrees of latitude and 60 of longitude, sines and products in
\* thousandths, each product rounded to the nearest thousandth with the sign
\* kept, as a floating-point product is.
Milli == 1000

\* sin of 0, 15, ..., 90 degrees in thousandths.
SinTable == <<0, 259, 500, 707, 866, 966, 1000>>

\* Math.sin(x * Math.PI / 180) for x a multiple of 15 degrees.
Math_sin(x) ==
  LET m == x % 360 IN
  IF m <= 90 THEN SinTable[(m \div 15) + 1]
  ELSE IF m <= 180 THEN SinTable[((180 - m) \div 15) + 1]
  ELSE IF m <= 270 THEN 0 - SinTable[((m - 180) \div 15) + 1]
  ELSE 0 - SinTable[((360 - m) \div 15) + 1]

\* Math.cos(x * Math.PI / 180)
Math_cos(x) == Math_sin(x + 90)

\* x * y of two values in thousandths.
Times(x, y) ==
  IF x * y >= 0 THEN (x * y + (Milli \div 2)) \div Milli
  ELSE 0 - (((0 - x * y) + (Milli \div 2)) \div Milli)

\* Math.sqrt of a value in thousandths: NaN below zero.
Math_sqrt(x) ==
  IF x < 0 THEN NaN
  ELSE CHOOSE n \in 0..(2 * Milli) : n * n <= x * Milli /\ x * Milli < (n + 1) * (n + 1)

\* Math.atan2(y, x) for y, x >= 0, in milliradians, to the nearest angle of
\* the table; NaN when an argument is.
Math_atan2(y, x) ==
  IF y = NaN \/ x = NaN THEN NaN
  ELSE LET off(k) == LET d == y * Math_cos(15 * k) - x * Math_sin(15 * k)
                     IN IF d < 0 THEN 0 - d ELSE d
           k == CHOOSE i \in 0..6 : \A j \in 0..6 : off(i) < off(j) \/ (off(i) = off(j) /\ i <= j)
       IN (k * 15 * 3142) \div 180

\* Variant: the second cosine is taken of the first latitude as well.
calculateDistance_OneCosine(lat1, lon1, lat2, lon2) ==
  LET R == 6371
      dLat == lat2 - lat1
      dLon == lon2 - lon1
      a == Times(Math_sin(dLat \div 2), Math_sin(dLat \div 2))
           + Times(Times(Times(Math_cos(lat1), Math_cos(lat1)), Math_sin(dLon \div 2)),
                   Math_sin(dLon \div 2))
      c == Math_atan2(Math_sqrt(a), Math_sqrt(Milli - a))
  IN IF c = NaN THEN NaN ELSE (R * 2 * c) \div Milli

\* calculateDistance(lat1, lon1, lat2, lon2), in km
calculateDistance(lat1, lon1, lat2, lon2) ==
  LET R == 6371
      dLat == lat2 - lat1
      dLon == lon2 - lon1
      a == Times(Math_sin(dLat \div 2), Math_sin(dLat \div 2))
           + Times(Times(Times(Math_cos(lat1), Math_cos(lat2)), Math_sin(dLon \div 2)),
                   Math_sin(dLon \div 2))
      c == Math_atan2(Math_sqrt(a), Math_sqrt(Milli - a))
  IN IF c = NaN THEN NaN ELSE (R * 2 * c) \div Milli

\* Valid points of the grid: latitude -90..90, longitude -180..180.
GridPoints == [lat : {30 * k : k \in (0 - 3)..3}, lng : {60 * k : k \in (0 - 3)..3}]

\* A request with a pickup and a destination.
RouteRequests == [pickup : GridPoints, dest : GridPoints]

\* const distance = calculateDistance(pickupLat, pickupLng, destLat, destLng)
MeasureDistance(i) ==
  /\ last' = [op |-> "distance", code |-> 0,
              distance |-> calculateDistance(reqs[i].pickup.lat, reqs[i].pickup.lng,
                                             reqs[i].dest.lat, reqs[i].dest.lng)]
  /\ UNCHANGED <<users, drivers, nextDriver, rides, now, reqs, vehicles>>

\* One request with two points of the grid has arrived.
InitDistance ==
  /\ users = (Rider :> "user" @@ DriverA :> "driver" @@ DriverB :> "driver" @@ Admin :> "admin")
  /\ drivers = (P(1) :> NewDriver(DriverB))
  /\ nextDriver = 2
  /\ rides = [r \in {} |-> NewRide(Null)]
  /\ now = 1
  /\ last = [op |-> "none", code |-> 0]
  /\ reqs \in [EstimateSlots -> RouteRequests]
  /\ vehicles = NoVehicles

NextDistance == \E i \in EstimateSlots : MeasureDistance(i)

SpecDistance == InitDistance /\ [][NextDistance]_vars

\* ------------------------------------------------------------------------
\* Rate requests in flight together.  The handler awaits four times: the
\* lookup of the ride, ride.save(), the query for the driver's rides and the
\* update of the driver detail; other requests run at each await.  The slot
\* keeps the rating of the body, then the average that was computed, in arg.
RaceRatings == {0, 3, 5}

\* rate: the check of the body, await Ride.findOne, if (ride.riderRating)
RateFind(i, u, r, rating) ==
  /\ reqs[i].pc = "idle"
  /\ IF rating = 0 \/ rating < 1 \/ rating > 5
     THEN Enter(i, "rate", u, r, Null, "done", 400)
     ELSE IF ~RatableRide(u, r)
     THEN Enter(i, "rate", u, r, Null, "done", 404)
     ELSE IF AlreadyRated(rides[r])
     THEN Enter(i, "rate", u, r, Null, "done", 400)
     ELSE Enter(i, "rate", u, r, <<"rating", rating>>, "save", 0)
  /\ ReadFrame

\* rate: ride.riderRating = rating; await ride.save(); if (ride.driverId)
RateSave(i) ==
  /\ At(i, "rate", "save")
  /\ rides' = [rides EXCEPT ![reqs[i].ride].riderRating = reqs[i].arg[2]]
  /\ IF rides[reqs[i].ride].driverId # Null
     THEN Goto(i, "readAll")
     ELSE Answer(i, 200)
  /\ UNCHANGED now
  /\ SaveFrame

\* rate: await Ride.find({ driverId, riderRating: { $exists: true } }) and
\* the average of what it returned
RateReadAll(i) ==
  /\ At(i, "rate", "readAll")
  /\ LET driverRides == DriverRides(rides, rides[reqs[i].ride].driverId)
         averageRating == ToFixed1(SumRatings(rides, driverRides), Cardinality(driverRides))
     IN reqs' = [reqs EXCEPT ![i].pc = "writeAverage", ![i].arg = <<"average", averageRating>>]
  /\ ReadFrame

\* rate: await DriverDetail.findByIdAndUpdate(ride.driverId, { driverRating })
RateWriteAverage(i) ==
  /\ At(i, "rate", "writeAverage")
  /\ LET driverId == rides[reqs[i].ride].driverId IN
     drivers' = IF driverId \in DOMAIN drivers
                THEN [drivers EXCEPT ![driverId].driverRating = reqs[i].arg[2]]
                ELSE drivers
  /\ Answer(i, 200)
  /\ UNCHANGED <<users, nextDriver, rides, now, last, vehicles>>

\* The rider's rides are completed and unrated, and no request is in flight.
InitRateRace ==
  /\ users = (Rider :> "user" @@ DriverA :> "driver" @@ DriverB :> "driver" @@ Admin :> "admin")
  /\ drivers = (P(1) :> NewDriver(DriverA)) @@ (P(2) :> NewDriver(DriverB))
  /\ nextDriver = 3
  /\ rides = [r \in RatedRideIds |-> CompletedRide(Rider, DriverOfRide(r))]
  /\ now = MaxTime
  /\ last = [op |-> "none", code |-> 0]
  /\ reqs = [i \in Slots |-> NoReq]
  /\ vehicles = NoVehicles

NextRateRace ==
  \/ \E i \in Slots, u \in RateCallers, r \in RatedRideIds, rating \in RaceRatings :
       RateFind(i, u, r, rating)
  \/ \E i \in Slots : RateSave(i)
  \/ \E i \in Slots : RateReadAll(i)
  \/ \E i \in Slots : RateWriteAverage(i)

SpecRateRace == InitRateRace /\ [][NextRateRace]_vars

\* ------------------------------------------------------------------------
\* Assign-vehicle requests in flight together.  The handler awaits
\* Vehicle.findById, DriverDetail.findById, vehicle.save() and driver.save();
\* other requests run at each await.  The slot keeps the vehicle id of the
\* body in arg and the id of the route in driverDetail.
AssignVehicleBegin(i, a, id, vehicleId) ==
  /\ reqs[i].pc = "idle"
  /\ LET entered(pc, c) == [op |-> "assignVehicle", pc |-> pc, caller |-> a, ride |-> 0,
                            arg |-> vehicleId, driverDetail |-> id, code |-> c]
     IN IF ~isAdmin(a)
        THEN reqs' = [reqs EXCEPT ![i] = entered("done", 403)]
        ELSE IF vehicleId = Null
        THEN reqs' = [reqs EXCEPT ![i] = entered("done", 400)]
        ELSE reqs' = [reqs EXCEPT ![i] = entered("findVehicle", 0)]
  /\ ReadFrame

\* assign-vehicle: await Vehicle.findById and the check of its status
AssignVehicleFind(i) ==
  /\ At(i, "assignVehicle", "findVehicle")
  /\ IF Vehicle_findById(reqs[i].arg) = Null
     THEN Answer(i, 404)
     ELSE IF VehicleTaken(reqs[i].arg)
     THEN Answer(i, 400)
     ELSE Goto(i, "findDriver")
  /\ ReadFrame

\* assign-vehicle: await DriverDetail.findById
AssignVehicleFindDriver(i) ==
  /\ At(i, "assignVehicle", "findDriver")
  /\ IF DriverDetail_findById(reqs[i].driverDetail) = Null
     THEN Answer(i, 404)
     ELSE Goto(i, "saveVehicle")
  /\ ReadFrame

\* assign-vehicle: vehicle.status = 'assigned'; await vehicle.save()
AssignVehicleSave(i) ==
  /\ At(i, "assignVehicle", "saveVehicle")
  /\ vehicles' = SetVehicleStatus(vehicles, reqs[i].arg, "assigned")
  /\ Goto(i, "saveDriver")
  /\ UNCHANGED <<users, drivers, nextDriver, rides, now, last>>

\* assign-vehicle: driver.vehicleId = vehicleId; await driver.save()
AssignVehicleSaveDriver(i) ==
  /\ At(i, "assignVehicle", "saveDriver")
  /\ drivers' = IF reqs[i].driverDetail \in DOMAIN drivers
                THEN [drivers EXCEPT ![reqs[i].driverDetail].vehicleId = reqs[i].arg]
                ELSE drivers
  /\ Answer(i, 200)
  /\ UNCHANGED <<users, nextDriver, rides, now, last, vehicles>>

\* Both drivers have their details, the vehicles are registered and
\* available, and no request is in flight.
InitVehicleRace ==
  /\ users = (Rider :> "user" @@ DriverA :> "driver" @@ DriverB :> "driver" @@ Admin :> "admin")
  /\ drivers = (P(1) :> NewDriver(DriverA)) @@ (P(2) :> NewDriver(DriverB))
  /\ nextDriver = 3
  /\ rides = [r \in {} |-> NewRide(Null)]
  /\ now = 1
  /\ last = [op |-> "none", code |-> 0]
  /\ reqs = [i \in Slots |-> NoReq]
  /\ vehicles = [v \in FleetVehicles |-> NewVehicle(RegisteredType(v))]

NextVehicleRace ==
  \/ \E i \in Slots, a \in AdminCallers, id \in FleetProfiles, v \in VehicleRefs :
       AssignVehicleBegin(i, a, id, v)
  \/ \E i \in Slots : AssignVehicleFind(i)
  \/ \E i \in Slots : AssignVehicleFindDriver(i)
  \/ \E i \in Slots : AssignVehicleSave(i)
  \/ \E i \in Slots : AssignVehicleSaveDriver(i)

SpecVehicleRace == InitVehicleRace /\ [][NextVehicleRace]_vars

\* ------------------------------------------------------------------------
\* Properties
\* ------------------------------------------------------------------------

\* The transition table of the ride state machine.
Edges ==
  {<<"pending", "searching">>, <<"pending", "cancelled">>,
   <<"searching", "awaiting_driver_confirmation">>, <<"searching", "cancelled">>,
   <<"awaiting_driver_confirmation", "accepted">>, <<"awaiting_driver_confirmation", "cancelled">>,
   <<"accepted", "picked_up">>, <<"accepted", "cancelled">>,
   <<"picked_up", "in_progress">>, <<"picked_up", "cancelled">>,
   <<"in_progress", "completed">>, <<"in_progress", "cancelled">>}

\* The forward order of the non-cancelled statuses.
Forward ==
  <<"pending", "searching", "awaiting_driver_confirmation", "accepted",
    "picked_up", "in_progress", "completed">>
Rank(status) == CHOOSE k \in 1..Len(Forward) : Forward[k] = status
Ranked == {Forward[k] : k \in 1..Len(Forward)}

\* C1: once a ride's status is completed or cancelled, no step of any
\* operation changes that status.
C1_TerminalAbsorbing ==
  [][\A r \in DOMAIN rides :
        rides[r].status \in Terminal => rides'[r].status = rides[r].status]_vars

\* C2: every status change made through PATCH /rides/:id/status follows an
\* edge of the transition table; a request for any other pair of current and
\* requested status leaves the ride's status unchanged.
C2_PatchFollowsTable ==
  [][last'.op = "patch" =>
      \A u \in Callers, r \in RideIds, s \in Statuses :
        (PatchStatus(u, r, s) /\ r \in DOMAIN rides)
        => \/ rides'[r].status = rides[r].status
           \/ <<rides[r].status, rides'[r].status>> \in Edges]_vars

\* C3: through PATCH /rides/:id/status, a caller who is the ride's rider and
\* not its assigned driver (and no administrator) never moves the ride to
\* accepted, picked_up, in_progress or completed.
C3_RiderCannotAdvance ==
  [][last'.op = "patch" =>
      \A u \in Callers, r \in RideIds, s \in {"accepted", "picked_up", "in_progress", "completed"} :
        (PatchStatus(u, r, s) /\ r \in DOMAIN rides /\ rides[r].userId = u
           /\ ~(\E p \in DOMAIN drivers : drivers[p].userId = u /\ rides[r].driverId = p)
           /\ users[u] # "admin" /\ rides[r].status # s)
        => rides'[r].status # s]_vars

\* C4: a PATCH /admin/rides/:rideId/status request whose target status
\* precedes the ride's current status in the forward order is rejected and
\* leaves the ride as it was.
C4_AdminPatchForwardOnly ==
  [][last'.op = "adminPatch" =>
      \A a \in AdminCallers, r \in RideIds, s \in Ranked :
        (AdminPatchStatus(a, r, s) /\ r \in DOMAIN rides /\ rides[r].status \in Ranked
           /\ Rank(s) < Rank(rides[r].status))
        => (last'.code \notin {200, 201} /\ rides' = rides)]_vars

\* C5: at most one admin assign succeeds per ride: an assign issued on a
\* ride that a successful assign has already given a driver (driverId is
\* written by a successful assign only, and never back to null) does not
\* succeed.
C5_SingleAssign ==
  [][last'.op = "assign" =>
      \A a \in AdminCallers, r \in RideIds, d \in DriverRefs :
        (AdminAssign(a, r, d) /\ r \in DOMAIN rides /\ rides[r].driverId # Null)
        => last'.code \notin {200, 201}]_vars

\* C6: when two assign requests for the same pending ride have run
\* interleaved and both have answered, at most one of them answered with
\* success, and the ride's driverId is the driver of each request that did.
C6_OneAssignWins ==
  (\A i \in Slots : At(i, "assign", "done"))
  => /\ Cardinality({i \in Slots : reqs[i].code = 200}) <= 1
     /\ \A i \in Slots : reqs[i].code = 200 => rides[reqs[i].ride].driverId = reqs[i].arg

\* C7: with cancel, admin decline, assign, admin complete, accept and decline
\* running interleaved, a request that saves the ride while its stored
\* status is completed or cancelled does not store a different status.
C7_TerminalKeptUnderRace ==
  [][\A i \in Slots :
        (SaveStep(i) /\ rides[reqs[i].ride].status \in Terminal)
        => rides'[reqs[i].ride].status = rides[reqs[i].ride].status]_vars

\* The driver detail a driver reference names: by its own id or by the id
\* of the user that owns it.
RefersTo(d, p) == p \in DOMAIN drivers /\ (d = p \/ drivers[p].userId = d)

\* C8: an assign on a ride that is not pending, or with a driver reference
\* that names no driver detail, or whose driver detail belongs to a user that
\* does not exist or has another role than driver, is rejected and leaves the
\* ride's status, driverId and acceptedAt as they were.
C8_AssignRejected ==
  [][last'.op = "assign" =>
      \A r \in RideIds :
        \* contrapositive: a step that is not a rejection leaving the ride
        \* alone is not an assign in one of the rejected cases
        ~(/\ r \in DOMAIN rides'
          /\ last'.code \in {400, 403, 404}
          /\ r \in DOMAIN rides
          /\ rides'[r].status = rides[r].status
          /\ rides'[r].driverId = rides[r].driverId
          /\ rides'[r].acceptedAt = rides[r].acceptedAt)
        => \A a \in AdminCallers, d \in DriverRefs :
             ~(/\ r \in DOMAIN rides
               /\ \/ rides[r].status # "pending"
                  \/ ~(\E p \in DOMAIN drivers : RefersTo(d, p))
                  \/ \E p \in DOMAIN drivers :
                        RefersTo(d, p) /\ users[drivers[p].userId] # "driver"
               /\ AdminAssign(a, r, d))]_vars

\* An assign has just been rejected on a ride that has left pending, while a
\* valid driver was on offer.
C8_Witness ==
  /\ last = [op |-> "assign", code |-> 400]
  /\ \E r \in DOMAIN rides : rides[r].status = "accepted" /\ rides[r].driverId # Null
  /\ \E p \in DOMAIN drivers : users[drivers[p].userId] = "driver"

\* C9: an administrator's assign to a pending ride, with a reference to a
\* driver detail by its id or by its user's id, whose user has role driver,
\* succeeds; afterwards the ride awaits the driver's confirmation, its
\* driverId is that driver detail's id and acceptedAt is set.
C9_AssignSucceeds ==
  [][last'.op = "assign" =>
      \A r \in RideIds :
        (r \in DOMAIN rides /\ rides[r].status = "pending") =>
          \A p \in DOMAIN drivers :
            \* contrapositive: a step that is not a success storing p is
            \* not a valid assign of p
            (/\ users[drivers[p].userId] = "driver"
             /\ ~(/\ last'.code = 200
                  /\ rides'[r].status = "awaiting_driver_confirmation"
                  /\ rides'[r].driverId = p
                  /\ rides'[r].acceptedAt # 0))
            => \A a \in AdminCallers, d \in DriverRefs :
                 ~(isAdmin(a) /\ RefersTo(d, p) /\ AdminAssign(a, r, d))]_vars

\* An assign has just succeeded and the ride awaits its driver.
C9_Witness ==
  /\ last = [op |-> "assign", code |-> 200]
  /\ \E r \in DOMAIN rides :
        /\ rides[r].status = "awaiting_driver_confirmation"
        /\ rides[r].driverId \in DOMAIN drivers
        /\ rides[r].acceptedAt # 0

\* The ids that have been given to driver details so far.
IssuedDriverIds == {P(n) : n \in 1..(nextDriver - 1)}

OwnAwaitingRide(u, r) ==
  /\ r \in DOMAIN rides
  /\ rides[r].status = "awaiting_driver_confirmation"
  /\ \E p \in DOMAIN drivers : drivers[p].userId = u /\ rides[r].driverId = p

\* C11: a driver accept or decline by a caller who has no driver detail, or
\* whose driver detail is not the ride's, or on a ride that does not await
\* its driver's confirmation, is rejected and leaves the rides as they were.
C11_DriverAnswerGuarded ==
  [][last'.op \in {"accept", "decline"} =>
      \/ last'.code # 200 /\ rides' = rides
      \/ \A u \in Callers, r \in RideIds :
            OwnAwaitingRide(u, r) \/ ~(Accept(u, r) \/ Decline(u, r))]_vars

\* An accept has just been rejected although the ride awaits a driver: the
\* caller was not that driver.
C11_Witness ==
  /\ last = [op |-> "accept", code |-> 404]
  /\ \E r \in DOMAIN rides :
        /\ rides[r].status = "awaiting_driver_confirmation"
        /\ rides[r].driverId \in DOMAIN drivers

\* The fields of a ride that an answer of its driver leaves alone.
KeptByAnswer(ride) == <<ride.driverId, ride.userId, ride.rideType, ride.totalFare>>

\* C12: a successful driver accept takes the ride from awaiting its driver's
\* confirmation to accepted, a successful driver decline takes it from there
\* to cancelled with cancelledAt set, and both keep the ride's driverId,
\* userId and fare.
C12_DriverAnswerEffect ==
  [][(last'.op \in {"accept", "decline"} /\ last'.code = 200) =>
      \A u \in Callers, r \in RideIds :
        /\ Accept(u, r) =>
              /\ rides[r].status = "awaiting_driver_confirmation"
              /\ rides'[r].status = "accepted"
              /\ KeptByAnswer(rides'[r]) = KeptByAnswer(rides[r])
        /\ Decline(u, r) =>
              /\ rides[r].status = "awaiting_driver_confirmation"
              /\ rides'[r].status = "cancelled"
              /\ rides'[r].cancelledAt # 0
              /\ KeptByAnswer(rides'[r]) = KeptByAnswer(rides[r])]_vars

\* A driver has just declined the ride assigned to it.
C12_Witness ==
  /\ last = [op |-> "decline", code |-> 200]
  /\ \E r \in DOMAIN rides :
        /\ rides[r].status = "cancelled"
        /\ rides[r].cancelledAt # 0
        /\ rides[r].driverId \in ProfileIds
        /\ rides[r].totalFare # 0

\* The statuses of a ride that has not ended.
NonTerminal == Statuses \ Terminal

\* C13: a cancel by the ride's owner and a decline by an administrator, on a
\* ride that is pending, searching, awaiting its driver's confirmation,
\* accepted, picked up or in progress, succeed and leave the ride cancelled
\* with cancelledAt set.
C13_CancelSucceeds ==
  [][last'.op \in {"cancel", "adminDecline"} =>
      \A r \in RideIds :
        (r \in DOMAIN rides /\ rides[r].status \in NonTerminal) =>
          \/ /\ last'.code = 200
             /\ rides'[r].status = "cancelled"
             /\ rides'[r].cancelledAt # 0
          \/ /\ \A u \in Callers : ~(rides[r].userId = u /\ Cancel(u, r))
             /\ \A a \in AdminCallers : ~(isAdmin(a) /\ AdminDecline(a, r))]_vars

\* An administrator has just declined a ride that had been started.
C13_Witness ==
  /\ last = [op |-> "adminDecline", code |-> 200]
  /\ \E r \in DOMAIN rides :
        /\ rides[r].status = "cancelled"
        /\ rides[r].cancelledAt # 0
        /\ rides[r].startedAt # 0
        /\ rides[r].completedAt = 0

\* C14: a cancel by the ride's owner and a decline by an administrator, on a
\* ride that is completed or cancelled, are rejected with a message that
\* names that status, and leave status, cancelledAt and completedAt alone.
C14_CancelTerminalRejected ==
  [][last'.op \in {"cancel", "adminDecline"} =>
      \A r \in RideIds :
        (r \in DOMAIN rides /\ rides[r].status \in Terminal) =>
          \/ /\ last'.code = 400
             /\ last' = [op |-> last'.op, code |-> 400, names |-> rides[r].status]
             /\ rides'[r].status = rides[r].status
             /\ rides'[r].cancelledAt = rides[r].cancelledAt
             /\ rides'[r].completedAt = rides[r].completedAt
          \/ /\ \A u \in Callers : ~(rides[r].userId = u /\ Cancel(u, r))
             /\ \A a \in AdminCallers : ~(isAdmin(a) /\ AdminDecline(a, r))]_vars

\* The owner's cancel of a completed ride has just been rejected.
C14_Witness ==
  /\ last = [op |-> "cancel", code |-> 400, names |-> "completed"]
  /\ \E r \in DOMAIN rides : rides[r].status = "completed" /\ rides[r].completedAt # 0

\* The lifecycle timestamps of a ride.
Stamps(ride) ==
  <<ride.acceptedAt, ride.pickedUpAt, ride.startedAt, ride.completedAt, ride.cancelledAt>>

\* C15: a lifecycle timestamp of a ride that has been set is never changed
\* by a later operation.
C15_StampedOnce ==
  [][\A r \in DOMAIN rides :
       r \in DOMAIN rides' =>
         \A i \in 1..5 : Stamps(rides[r])[i] # 0 => Stamps(rides'[r])[i] = Stamps(rides[r])[i]]_vars

\* The stored timestamp that belongs to a status; 1 (set) for the statuses
\* that have none.
StampOf(ride) ==
  CASE ride.status = "accepted" -> ride.acceptedAt
    [] ride.status = "picked_up" -> ride.pickedUpAt
    [] ride.status = "in_progress" -> ride.startedAt
    [] ride.status = "completed" -> ride.completedAt
    [] ride.status = "cancelled" -> ride.cancelledAt
    [] OTHER -> 1

\* C16: a stored ride that is accepted, picked up, in progress, completed or
\* cancelled has the timestamp of that status set.
C16_StatusHasStamp == \A r \in DOMAIN rides : StampOf(rides[r]) # 0

\* C17: a ride created by an order is pending, belongs to the caller, has no
\* driver and no lifecycle timestamp, whatever status and timestamp the
\* request body carries.
C17_OrderStartsPending ==
  [][(last'.op = "order" /\ last'.code = 201) =>
      \A u \in Riders, body \in OrderBodies :
        Order(u, body) =>
          \E r \in DOMAIN rides' \ DOMAIN rides :
            /\ rides'[r].status = "pending"
            /\ rides'[r].userId = u
            /\ rides'[r].driverId = Null
            /\ Stamps(rides'[r]) = <<0, 0, 0, 0, 0>>
            /\ \A q \in DOMAIN rides : rides'[q] = rides[q]]_vars

\* An order has just created a ride.
C17_Witness ==
  /\ last = [op |-> "order", code |-> 201]
  /\ \E r \in DOMAIN rides :
        /\ rides[r].status = "pending"
        /\ rides[r].userId = Rider
        /\ rides[r].totalFare = 500

\* The request is one the rate operation is meant to take: by the ride's
\* rider, on a completed ride without a rider rating, with a rating of 1..5.
RatePermitted(u, r, rating) ==
  /\ r \in DOMAIN rides
  /\ rides[r].userId = u
  /\ rides[r].status = "completed"
  /\ rides[r].riderRating = 0
  /\ rating \in 1..5

\* C18: a rate that is not by the ride's rider, or on a ride that is not
\* completed, or on a ride already rated, or with a rating outside 1..5, is
\* rejected and changes no ride's riderRating and no driver's driverRating.
C18_RateGuarded ==
  [][last'.op = "rate" =>
      \/ last'.code # 200 /\ rides' = rides /\ drivers' = drivers
      \/ \A u \in RateCallers, r \in RatedRideIds, rating \in RequestRatings :
            RatePermitted(u, r, rating) \/ ~Rate(u, r, rating)]_vars

\* A rate has just been rejected with "not found" while an unrated ride of
\* the rider was not completed.
C18_Witness ==
  /\ last = [op |-> "rate", code |-> 404]
  /\ \E r \in DOMAIN rides : rides[r].status = "accepted" /\ rides[r].riderRating = 0

\* C19: once a ride has a rider rating, no step changes it and no rate on
\* that ride succeeds, whatever its status has become in between.
C19_RatedOnce ==
  [][\A r \in DOMAIN rides :
       rides[r].riderRating # 0 =>
         /\ r \in DOMAIN rides'
         /\ rides'[r].riderRating = rides[r].riderRating
         /\ last'.op = "rate" =>
               \A u \in RateCallers, rating \in RequestRatings :
                 Rate(u, r, rating) => last'.code # 200]_vars

\* Every ride has been rated, one of them has left completed since (only a
\* completed ride can be rated), and a rate has just been refused.
C19_Witness ==
  /\ last = [op |-> "rate", code |-> 404]
  /\ \A r \in DOMAIN rides : rides[r].riderRating # 0
  /\ \E r \in DOMAIN rides : rides[r].status = "accepted"

\* The rides of a driver that have a rider rating.
RatedRidesOf(rs, driverId) == {q \in DOMAIN rs : rs[q].driverId = driverId /\ rs[q].riderRating # 0}

\* C20: after a successful rate on a ride with a driver, the driver's
\* driverRating is the mean, rounded to one decimal, of the rider ratings of
\* those rides of the driver that have one.
C20_MeanOfRated ==
  [][(last'.op = "rate" /\ last'.code = 200) =>
      \A u \in RateCallers, r \in RatedRideIds, rating \in RequestRatings :
        (Rate(u, r, rating) /\ rides[r].driverId \in DOMAIN drivers) =>
          LET d == rides[r].driverId
              rated == RatedRidesOf(rides', d)
          IN drivers'[d].driverRating = ToFixed1(SumRatings(rides', rated), Cardinality(rated))]_vars

\* C21: a permitted rate on a completed ride that has no driver succeeds,
\* stores the rating on the ride and leaves every driver detail as it was.
C21_RateWithoutDriver ==
  [][last'.op = "rate" =>
      \A r \in RatedRideIds :
        (r \in DOMAIN rides /\ rides[r].driverId = Null) =>
          \A u \in RateCallers, rating \in RequestRatings :
            (RatePermitted(u, r, rating) /\ Rate(u, r, rating)) =>
              /\ last'.code = 200
              /\ rides'[r].riderRating = rating
              /\ drivers' = drivers]_vars

\* The only rated ride is one without a driver: the rate just answered was
\* for it, and no driver has a rating.
C21_Witness ==
  /\ last = [op |-> "rate", code |-> 200]
  /\ \E r \in DOMAIN rides :
        /\ rides[r].driverId = Null
        /\ rides[r].riderRating # 0
        /\ \A q \in DOMAIN rides \ {r} : rides[q].riderRating = 0
  /\ \A p \in DOMAIN drivers : drivers[p].driverRating = 0

\* The tariff of the fare rules: base fare, per km, per minute, service fee
\* in percent.
Tariff(c) ==
  CASE c = "bicycle" -> <<200, 50, 10, 5>>
    [] c = "motorcycle" -> <<300, 100, 15, 8>>
    [] c = "car" -> <<500, 150, 20, 10>>

\* round(num / den): the integer k with k - 1/2 <= num / den < k + 1/2.
Nearest(num, den) ==
  CHOOSE k \in 0..(num \div den + 1) :
    (2 * k - 1) * den <= 2 * num /\ 2 * num < (2 * k + 1) * den

\* The quote of the fare rules for a distance of quarters / 4 km, each
\* rounding applied on its own.
RuleQuote(c, quarters) ==
  LET t == Tariff(c)
      duration == Nearest(quarters * 60, 4 * 30)
      distanceFare == Nearest(quarters * t[2], 4)
      timeFare == Nearest(duration * t[3], 1)
      subtotal == t[1] + distanceFare + timeFare
      serviceFee == Nearest(subtotal * t[4], 100)
  IN [duration |-> duration, baseFare |-> t[1], distanceFare |-> distanceFare,
      timeFare |-> timeFare, serviceFee |-> serviceFee,
      totalFare |-> subtotal + serviceFee]

\* C22: for bicycle, motorcycle and car and every distance, the estimate
\* answers the quote of the fare rules; for car and 10 km that is distance
\* fare 1500, time fare 400, service fee 240 and total fare 2640.
C22_EstimateFollowsRules ==
  (last.op = "estimate" /\ last.code = 200) =>
    \A i \in DOMAIN reqs :
      reqs[i].body.rideType \in {"bicycle", "motorcycle", "car"} =>
        /\ last.estimate = RuleQuote(reqs[i].body.rideType, reqs[i].quarters)
        /\ (reqs[i].body.rideType = "car" /\ reqs[i].quarters = 40) =>
              last.estimate = [duration |-> 20, baseFare |-> 500, distanceFare |-> 1500,
                               timeFare |-> 400, serviceFee |-> 240, totalFare |-> 2640]

\* The estimate for a car over 10 km has been answered.
C22_Witness ==
  /\ last.op = "estimate"
  /\ last.code = 200
  /\ \E i \in DOMAIN reqs : reqs[i].body.rideType = "car" /\ reqs[i].quarters = 40
  /\ last.estimate.totalFare = 2640

\* C23: an estimate or an order that names a ride type other than bicycle,
\* motorcycle and car is rejected, and the rejected order creates no ride.
C23_UnknownTypeRejected ==
  [][last'.op \in {"estimate", "order"} =>
      /\ \A i \in DOMAIN reqs :
            (/\ reqs[i].body.rideType \notin {"bicycle", "motorcycle", "car"}
             /\ Estimate(reqs[i].body, reqs[i].quarters))
              => last'.code \notin {200, 201}
      /\ \A u \in Riders, body \in AnyOrderBodies :
            (body.rideType \notin {"bicycle", "motorcycle", "car"} /\ Order(u, body))
              => last'.code \notin {200, 201} /\ rides' = rides]_vars

\* ------------------------------------------------------------------------
\* Vehicles and their drivers

\* The drivers whose vehicleId references the vehicle.
DriversOf(v) == {p \in DOMAIN drivers : drivers[p].vehicleId = v}

\* C24: an assign-vehicle request of the administrator that names a vehicle
\* whose status is assigned is answered 400 'Vehicle is already assigned to
\* another driver', and it changes no vehicle and no driver detail.
C24_AssignTakenRejected ==
  [][last'.op = "assignVehicle" =>
       \A v \in DOMAIN vehicles :
         vehicles[v].status = "assigned" =>
           \A id \in FleetProfiles :
             (last' # Conflict \/ vehicles' # vehicles \/ drivers' # drivers)
               => ~AssignVehicle(Admin, id, v)]_vars

\* C24 witness: the assignment of a vehicle that a driver holds has been
\* refused with the message of the conflict.
C24_Witness ==
  /\ last = Conflict
  /\ \E v \in DOMAIN vehicles : vehicles[v].status = "assigned" /\ DriversOf(v) # {}

\* C25: no vehicle is referenced by the vehicleId of more than one driver
\* detail, whatever assignments, unassignments, vehicle updates, driver
\* deletions and vehicle deletions have happened.
C25_OneDriverPerVehicle ==
  \A v \in FleetVehicles : Cardinality(DriversOf(v)) <= 1

\* C26: after any sequence of assign-vehicle, unassign-vehicle and driver
\* delete requests, a vehicle has status assigned exactly when some driver
\* detail references it.
C26_BothSidesAgree ==
  \A v \in DOMAIN vehicles : vehicles[v].status = "assigned" <=> DriversOf(v) # {}

\* C27: an unassign-vehicle request of the administrator for a driver that
\* has a vehicle succeeds, leaves the driver's vehicleId null and the
\* vehicle's status available; for a driver that has no vehicle it is
\* answered with an error and changes no driver detail and no vehicle.
C27_UnassignBothSides ==
  [][last'.op = "unassignVehicle" =>
       \A u \in FleetDriverUsers :
         LET p == DriverDetail_findByUser(u) IN
         p # Null =>
           IF VehicleOf(p) # Null
           THEN (~(/\ last'.code = 200
                   /\ p \in DOMAIN drivers' /\ drivers'[p].vehicleId = Null
                   /\ VehicleOf(p) \in DOMAIN vehicles' /\ vehicles'[VehicleOf(p)].status = "available"))
                  => ~UnassignVehicle(Admin, u)
           ELSE (last'.code < 400 \/ drivers' # drivers \/ vehicles' # vehicles)
                  => ~UnassignVehicle(Admin, u)]_vars

\* C27 witness: an unassignment has succeeded, a driver's vehicleId is null
\* and every vehicle that no driver references is available.
C27_Witness ==
  /\ last.op = "unassignVehicle" /\ last.code = 200
  /\ \E p \in DOMAIN drivers : drivers[p].vehicleId = Null
  /\ \A v \in DOMAIN vehicles : DriversOf(v) = {} => vehicles[v].status = "available"

\* The drivers that satisfy the category rule of a ride type: no vehicle for
\* a bicycle ride, a motorcycle for a motorcycle ride, a sedan, suv or van for
\* a car ride.
Eligible(rideType) ==
  {p \in DOMAIN drivers :
     IF rideType = "bicycle" THEN VehicleOf(p) = Null
     ELSE /\ VehicleOf(p) \in DOMAIN vehicles
          /\ IF rideType = "motorcycle"
             THEN vehicles[VehicleOf(p)].vehicleType = "motorcycle"
             ELSE vehicles[VehicleOf(p)].vehicleType \in {"sedan", "suv", "van"}}

\* C28: the available-drivers query of the owner of a ride in status
\* searching is answered successfully, and the drivers it returns all satisfy
\* the category rule of the ride's type.
C28_AvailableDriversAnswered ==
  [][last'.op = "availableDrivers" =>
       \A u \in Callers, r \in RideIds :
         (r \in DOMAIN rides /\ rides[r].userId = u /\ rides[r].status = "searching") =>
           (AvailableDrivers(u, r) =>
              /\ last'.code = 200
              /\ last'.availableDrivers \subseteq Eligible(rides[r].rideType))]_vars

\* ------------------------------------------------------------------------
\* Queries and error responses

\* The caller's rides whose status is not terminal.
NonTerminalRidesOf(u) ==
  {r \in DOMAIN rides : rides[r].userId = u /\ rides[r].status \notin Terminal}

\* C29: the active-ride query answers with one of the caller's rides whose
\* status is not terminal whenever the caller has such a ride, and with null
\* only when the caller has none.
C29_ActiveRideFound ==
  [][last'.op = "active" =>
       \A u \in Callers :
         GetActive(u) =>
           IF NonTerminalRidesOf(u) = {}
           THEN last'.ride = NoRide
           ELSE last'.ride \in NonTerminalRidesOf(u)]_vars

\* C30: a request that is answered with an error status leaves the users,
\* the driver details, the rides and the vehicles as they were.
C30_ErrorChangesNothing ==
  [][last'.code >= 400 => UNCHANGED <<users, drivers, rides, vehicles>>]_vars

\* ------------------------------------------------------------------------
\* Authorization and frame of the ride routes

\* The account owns the driver detail that the ride's driverId references.
OwnsDriverOf(u, r) ==
  rides[r].driverId \in DOMAIN drivers /\ drivers[rides[r].driverId].userId = u

\* C31: a status patch with a valid status for an existing ride, sent by an
\* account that is neither the ride's rider nor the owner of the driver
\* detail in the ride's driverId, is answered 403 and leaves the rides as
\* they were.
C31_StrangerPatchRejected ==
  [][last'.op = "patch" =>
       \A u \in Callers, r \in DOMAIN rides :
         (rides[r].userId # u /\ ~OwnsDriverOf(u, r)) =>
           \A s \in Statuses :
             (last'.code # 403 \/ rides' # rides) => ~PatchStatus(u, r, s)]_vars

\* C31 witness: a status patch has been refused with 403 while the ride has
\* a driver whose detail exists, so the refused caller was a third account.
C31_Witness ==
  /\ last = [op |-> "patch", code |-> 403]
  /\ \E r \in DOMAIN rides : rides[r].driverId \in DOMAIN drivers

\* C32: a step changes the driverId of a ride only when it is a successful
\* administrator's assign, and a ride that an order creates has no driver.
C32_DriverSetByAssignOnly ==
  [][/\ \A r \in DOMAIN rides :
          r \in DOMAIN rides' /\
          (rides'[r].driverId # rides[r].driverId => last' = [op |-> "assign", code |-> 200])
     /\ \A r \in DOMAIN rides' \ DOMAIN rides : rides'[r].driverId = Null]_vars

\* C32 witness: the rider has rated a ride, after the order, the assign, the
\* driver's answer and the completion, and the ride still has its driver.
C32_Witness ==
  /\ last = [op |-> "rate", code |-> 200]
  /\ \E r \in DOMAIN rides : rides[r].driverId \in DOMAIN drivers /\ rides[r].riderRating # 0

\* C33: no step changes the userId, the rideType or the totalFare of a ride
\* that exists.
C33_OrderFieldsKept ==
  [][\A r \in DOMAIN rides :
       /\ r \in DOMAIN rides'
       /\ rides'[r].userId = rides[r].userId
       /\ rides'[r].rideType = rides[r].rideType
       /\ rides'[r].totalFare = rides[r].totalFare]_vars

\* C33 witness: a ride that was ordered with a fare of 500 has been through
\* an assign and is completed or cancelled, with the fare it was ordered with.
C33_Witness ==
  \E r \in DOMAIN rides :
    /\ rides[r].status \in Terminal /\ rides[r].driverId # Null
    /\ rides[r].userId = Rider /\ rides[r].rideType = "car" /\ rides[r].totalFare = 500

\* ------------------------------------------------------------------------
\* The distance function

Rated200(i, r) ==
  reqs[i].op = "rate" /\ reqs[i].pc = "done" /\ reqs[i].code = 200 /\ reqs[i].ride = r

\* C35: of the rate requests for one ride, at most one answers with
\* success.
C35_OneRateSucceeds ==
  \A i, j \in Slots, r \in RatedRideIds : (Rated200(i, r) /\ Rated200(j, r)) => i = j

\* C36: once no rate request is in flight, at least one has succeeded and
\* every ride of a driver has its rating, the driver's driverRating is the
\* mean of these ratings, rounded to one decimal.
C36_AverageNotStale ==
  ((\A i \in Slots : reqs[i].pc \in {"idle", "done"}) /\ (\E i \in Slots, r \in RatedRideIds : Rated200(i, r)))
    => \A p \in DOMAIN drivers :
         LET mine == {q \in DOMAIN rides : rides[q].driverId = p}
         IN (mine # {} /\ \A q \in mine : rides[q].riderRating # 0) =>
              drivers[p].driverRating = ToFixed1(SumRatings(rides, mine), Cardinality(mine))

\* ------------------------------------------------------------------------
\* Requests in flight together: vehicles

\* Slot i has answered an assign-vehicle request for vehicle v with success.
Assigned200(i, v) ==
  /\ reqs[i].op = "assignVehicle" /\ reqs[i].pc = "done"
  /\ reqs[i].code = 200 /\ reqs[i].arg = v

\* C37: of the assign-vehicle requests that give one vehicle to different
\* drivers, at most one answers with success, and at most one driver detail
\* references the vehicle.
C37_OneAssignSucceeds ==
  \A v \in FleetVehicles :
    /\ \A i, j \in Slots :
         (Assigned200(i, v) /\ Assigned200(j, v) /\ reqs[i].driverDetail # reqs[j].driverDetail)
           => i = j
    /\ Cardinality(DriversOf(v)) <= 1

\* ------------------------------------------------------------------------
\* Estimates at the edges, and rides that wait for a driver

\* C38: an estimate request with a ride type of the tariff and coordinates
\* in range, a coordinate of 0 included, is answered with a quote.
C38_EstimateAlwaysQuotes ==
  last.op = "estimate" =>
    \A i \in DOMAIN reqs :
      reqs[i].body.rideType \in RideTypeEnum =>
        /\ last.code = 200
        /\ last.estimate = EstimateQuote(reqs[i].body.rideType, reqs[i].quarters)

\* Every ride that awaits a driver's confirmation has a driverId that
\* references a driver detail that exists.
AwaitingHaveDriver(rs, ds) ==
  \A r \in DOMAIN rs :
    rs[r].status = "awaiting_driver_confirmation" => rs[r].driverId \in DOMAIN ds

\* C39: a ride whose status is awaiting_driver_confirmation has a driverId
\* that references a driver detail that exists; here for every step other
\* than a status patch, from a state where it is so.
C39_AwaitingHasDriver ==
  [][(last'.op \notin {"patch", "adminPatch"} /\ AwaitingHaveDriver(rides, drivers))
       => AwaitingHaveDriver(rides', drivers')]_vars
====
